---------------------------- MODULE Spec2Model ----------------------------
(***************************************************************************)
(* purekv: an LSM-style key-value engine (src/src/kv_engine.cpp, first     *)
(* class in the file), its write-ahead log (WALImpl, listed in             *)
(* src/README.md lines 97-243) and its segment files (src/src/segment.cpp).*)
(*                                                                         *)
(* Files are sequences of words.  One word stands for one fixed-width      *)
(* field (crc, type, key_len, val_len) or one byte of a key or a value, so *)
(* a file can be cut between any two fields and any word can be garbage.   *)
(* A path "segments/seg_<N>.sst" is the number N.                          *)
(***************************************************************************)
EXTENDS Integers, Sequences, FiniteSets, TLC

\* --------------------------------------------------------------- bounds
\* Keys and values the callers use.  Values may be empty.
Keys == {<<1>>, <<2>>}
Vals == {<<>>, <<3>>}

\* The engine's tunables are fields of KVEngineImpl (mem_limit = 5,
\* compaction_threshold = 3).  The model runs mem_limit scaled down to MemLimit
\* so that flushes and compactions are reached; Spec keeps the source's
\* compaction_threshold, the other specifications scale it to SmallThreshold.
MemLimit == 2
CompactionThreshold == 3
SmallThreshold == 2
TinyLimit == 1
TinyThreshold == 1

\* Calls (put/del) the single caller issues: in Spec (no restart), and in
\* SpecRestart, where the engine restarts up to MaxRestarts times.
MaxCalls == 6
MaxCallsRestart == 4
MaxRestarts == 2
\* Calls (put/del) all threads of SpecConc issue together: on the engine with
\* MemLimit, and on the engine that flushes and compacts on every put.
MaxCallsConc == 2
MaxCallsTiny == 1
\* Calls and restarts of SpecFault.
MaxCallsFault == 4
MaxRestartsFault == 1
\* Calls of SpecCorrupt before a segment file is damaged, and how many times a
\* file is damaged; the words damage writes.
MaxCallsCorrupt == 4
MaxCorruptions == 1
Garbage == {0, 9}
\* Keys and values of the maps and records handed to the codecs alone.
CodecKeys == {<<>>, <<1>>, <<2>>, <<1, 2>>}
CodecVals == {<<>>, <<3>>, <<0, 0>>}
\* Records appended to the log when the log codec is driven alone.
MaxRecords == 3
\* put and del calls of the single caller that also issues gets.
MaxCallsGet == 4
\* put and del calls, and restarts, of the single caller that also issues gets
\* and restarts the engine.
MaxCallsLife == 4
MaxRestartsLife == 1
\* put and del calls, restarts and damages of the run whose log gets damaged.
MaxCallsLog == 3
MaxRestartsLog == 2
MaxLogCorruptions == 1
\* put calls of the writer and get calls of the reader that race.
MaxCallsGetRace == 4
MaxGetsRace == 1
\* put calls of the threads that race in flush and compaction, and the key
\* and the value they put.
MaxCallsRace == 3
RaceKeys == {<<1>>}
RaceVals == {<<3>>}

Threads == {1, 2}

REC_PUT == 1
REC_DEL == 2

\* ----------------------------------------------------------------- maps
\* unordered_map<string,string>: a function whose domain is the key set.
EmptyMap == [x \in {} |-> <<>>]
MapPut(m, k, v) == [x \in (DOMAIN m) \cup {k} |-> IF x = k THEN v ELSE m[x]]
MapErase(m, k) == [x \in (DOMAIN m) \ {k} |-> m[x]]

\* ---------------------------------------------------------------- codec
\* zlib crc32(0, buf, len), as a checksum of the word sequence.
RECURSIVE CrcFold(_, _)
CrcFold(buf, h) ==
    IF buf = <<>> THEN h
    ELSE CrcFold(Tail(buf), (h * 31 + Head(buf) + 1) % 1021)

crc32(buf) == CrcFold(buf, 0)

\* An append whose checksum covers key and value but not type|klen|vlen.
AppendBytesCrcOfPayload(type, key, value) ==
    <<crc32(key \o value), type, Len(key), Len(value)>> \o key \o value

\* WALImpl::append: the bytes one call writes (crc, then type|klen|vlen|key|value).
\* The value bytes are copied only for REC_PUT; the buffer is zero-filled.
AppendBytes(type, key, value) ==
    LET buf == <<type, Len(key), Len(value)>> \o key \o
               (IF type = REC_PUT THEN value ELSE [i \in 1..Len(value) |-> 0])
    IN  <<crc32(buf)>> \o buf

\* A replay that applies every record it can read in full: no CRC comparison.
RECURSIVE ReplayNoCrc(_, _)
ReplayNoCrc(log, pos) ==
    IF pos + 3 > Len(log) THEN <<>>
    ELSE LET type == log[pos + 1]
             klen == log[pos + 2]
             vlen == log[pos + 3]
             last == pos + 3 + klen + vlen
             key == SubSeq(log, pos + 4, pos + 3 + klen)
         IN  IF last > Len(log) THEN <<>>
             ELSE IF type = REC_PUT
                  THEN << <<"PUT", key, SubSeq(log, pos + 4 + klen, last)>> >>
                       \o ReplayNoCrc(log, last + 1)
             ELSE IF type = REC_DEL
                  THEN << <<"DEL", key, <<>> >> >> \o ReplayNoCrc(log, last + 1)
             ELSE ReplayNoCrc(log, last + 1)

\* WALImpl::replay from word offset pos: the calls fn(type, key, value) it makes,
\* in order.  It stops at a short read of any field or at a CRC mismatch; a
\* record of another type is skipped.
RECURSIVE ReplayFrom(_, _)
ReplayFrom(log, pos) ==
    IF pos + 3 > Len(log) THEN <<>>
    ELSE LET stored == log[pos]
             type == log[pos + 1]
             klen == log[pos + 2]
             vlen == log[pos + 3]
             last == pos + 3 + klen + vlen
             key == SubSeq(log, pos + 4, pos + 3 + klen)
         IN  IF last > Len(log) THEN <<>>
             ELSE IF crc32(SubSeq(log, pos + 1, last)) # stored THEN <<>>
             ELSE IF type = REC_PUT
                  THEN << <<"PUT", key, SubSeq(log, pos + 4 + klen, last)>> >>
                       \o ReplayFrom(log, last + 1)
             ELSE IF type = REC_DEL
                  THEN << <<"DEL", key, <<>> >> >> \o ReplayFrom(log, last + 1)
             ELSE ReplayFrom(log, last + 1)

\* The callback the engine's constructor hands to replay.
ReplayApply(st, type, key, value) ==
    IF type = "PUT" THEN MapPut(st, key, value)
    ELSE IF type = "DEL" THEN MapErase(st, key)
    ELSE st

RECURSIVE ApplyCalls(_, _)
ApplyCalls(calls, st) ==
    IF calls = <<>> THEN st
    ELSE ApplyCalls(Tail(calls),
                    ReplayApply(st, Head(calls)[1], Head(calls)[2], Head(calls)[3]))

\* The constructor: store_ after wal_->replay(callback) on an empty store_.
replay(log) == ApplyCalls(ReplayFrom(log, 1), EmptyMap)

\* One segment record: crc, then klen|vlen|key|value.
SegRecord(key, value) ==
    LET buf == <<Len(key), Len(value)>> \o key \o value
    IN  <<crc32(buf)>> \o buf

\* A writer that takes an empty value for "no entry" and leaves it out.
RECURSIVE write_segment_skip_empty(_)
write_segment_skip_empty(data) ==
    IF DOMAIN data = {} THEN <<>>
    ELSE LET k == CHOOSE x \in DOMAIN data : TRUE
         IN  (IF data[k] = <<>> THEN <<>> ELSE SegRecord(k, data[k]))
             \o write_segment_skip_empty(MapErase(data, k))

\* write_segment: the file content, one record per entry in the map's
\* iteration order (unspecified for unordered_map: some fixed order).
RECURSIVE write_segment(_)
write_segment(data) ==
    IF DOMAIN data = {} THEN <<>>
    ELSE LET k == CHOOSE x \in DOMAIN data : TRUE
         IN  SegRecord(k, data[k]) \o write_segment(MapErase(data, k))

\* A scan that inserts a record only if its key is not in out yet.
RECURSIVE ReadSegFromKeepExisting(_, _, _)
ReadSegFromKeepExisting(bytes, pos, out) ==
    IF pos + 2 > Len(bytes) THEN out
    ELSE LET stored == bytes[pos]
             klen == bytes[pos + 1]
             vlen == bytes[pos + 2]
             last == pos + 2 + klen + vlen
             key == SubSeq(bytes, pos + 3, pos + 2 + klen)
         IN  IF last > Len(bytes) THEN out
             ELSE IF crc32(SubSeq(bytes, pos + 1, last)) # stored THEN out
             ELSE ReadSegFromKeepExisting(bytes, last + 1,
                      IF key \in DOMAIN out THEN out
                      ELSE MapPut(out, key, SubSeq(bytes, pos + 3 + klen, last)))

\* read_segment's scan loop from word offset pos: out[key] = val per record.
RECURSIVE ReadSegFrom(_, _, _)
ReadSegFrom(bytes, pos, out) ==
    IF pos + 2 > Len(bytes) THEN out
    ELSE LET stored == bytes[pos]
             klen == bytes[pos + 1]
             vlen == bytes[pos + 2]
             last == pos + 2 + klen + vlen
         IN  IF last > Len(bytes) THEN out
             ELSE IF crc32(SubSeq(bytes, pos + 1, last)) # stored THEN out
             ELSE ReadSegFrom(bytes, last + 1,
                              MapPut(out, SubSeq(bytes, pos + 3, pos + 2 + klen),
                                     SubSeq(bytes, pos + 3 + klen, last)))

\* read_segment(path, out) on the directory fs: an open failure leaves out as is.
read_segment(fs, path, out) ==
    IF path \notin DOMAIN fs THEN out ELSE ReadSegFrom(fs[path], 1, out)

\* A lookup that trusts every record it can read in full: no CRC comparison.
RECURSIVE LookupNoCrc(_, _, _)
LookupNoCrc(bytes, pos, key) ==
    IF pos + 2 > Len(bytes) THEN <<FALSE, <<>> >>
    ELSE LET klen == bytes[pos + 1]
             vlen == bytes[pos + 2]
             last == pos + 2 + klen + vlen
         IN  IF last > Len(bytes) THEN <<FALSE, <<>> >>
             ELSE IF SubSeq(bytes, pos + 3, pos + 2 + klen) = key
                  THEN <<TRUE, SubSeq(bytes, pos + 3 + klen, last)>>
             ELSE LookupNoCrc(bytes, last + 1, key)

\* read_from_segment's scan loop: <<TRUE, value>> at the first record whose key
\* matches, <<FALSE, <<>> >> at the end, a short read or a CRC mismatch.
RECURSIVE LookupFrom(_, _, _)
LookupFrom(bytes, pos, key) ==
    IF pos + 2 > Len(bytes) THEN <<FALSE, <<>> >>
    ELSE LET stored == bytes[pos]
             klen == bytes[pos + 1]
             vlen == bytes[pos + 2]
             last == pos + 2 + klen + vlen
         IN  IF last > Len(bytes) THEN <<FALSE, <<>> >>
             ELSE IF crc32(SubSeq(bytes, pos + 1, last)) # stored
                  THEN <<FALSE, <<>> >>
             ELSE IF SubSeq(bytes, pos + 3, pos + 2 + klen) = key
                  THEN <<TRUE, SubSeq(bytes, pos + 3 + klen, last)>>
             ELSE LookupFrom(bytes, last + 1, key)

read_from_segment(fs, path, key) ==
    IF path \notin DOMAIN fs THEN <<FALSE, <<>> >> ELSE LookupFrom(fs[path], 1, key)

\* ---------------------------------------------------------------- state
VARIABLES
    wal,        \* content of wal/kv.wal
    files,      \* the segments/ directory: path number -> file content
    store,      \* store_, the memory index
    segments,   \* segments_, the segment stack (oldest first)
    wal_mu,     \* wal_mu_: the holding thread, or 0
    mem_mu,     \* mem_mu_: [x: exclusive holder or 0, s: set of shared holders]
    seg_mu,     \* seg_mu_: the holding thread, or 0
    th,         \* per thread: position in its call, arguments and locals
    mem_limit,              \* the field mem_limit
    compaction_threshold,   \* the field compaction_threshold
    hist        \* history of completed calls and engine events (for the claims)

vars == <<wal, files, store, segments, wal_mu, mem_mu, seg_mu, th,
          mem_limit, compaction_threshold, hist>>

IdleTh ==
    [pc |-> "idle", key |-> <<>>, val |-> <<>>, flush_needed |-> FALSE,
     snapshot |-> EmptyMap, name |-> 0, local_segments |-> <<>>,
     merged |-> EmptyMap, i |-> 0, status |-> "", out |-> <<>>, wfail |-> FALSE,
     sfail |-> FALSE]

\* get's segment loop: newest first, from stack position i down to 1.
RECURSIVE ScanSegments(_, _, _, _)
ScanSegments(segs, fs, i, key) ==
    IF i = 0 THEN <<"KEY_NOT_FOUND", <<>> >>
    ELSE LET r == read_from_segment(fs, segs[i], key)
         IN  IF r[1] THEN <<"OK", r[2]>> ELSE ScanSegments(segs, fs, i - 1, key)

\* KVEngineImpl::get run alone on a state: <<status, value>>.
GetIn(st, segs, fs, key) ==
    IF key \in DOMAIN st THEN <<"OK", st[key]>>
    ELSE ScanSegments(segs, fs, Len(segs), key)

get(key) == GetIn(store, segments, files, key)

\* What every key reads as.
View == [k \in Keys |-> get(k)]

Quiescent == \A t \in Threads : th[t].pc = "idle"

\* put and del calls issued so far: those that reached the memory index (they
\* are in hist) and those still before it.
Calls ==
    Cardinality({i \in DOMAIN hist : hist[i][1] \in {"put", "del"}})
    + Cardinality({t \in Threads : th[t].pc \in
                     {"put_wlock", "put_append", "put_mlock", "put_store",
                      "del_wlock", "del_append", "del_mlock", "del_erase"}})

Restarts == Cardinality({i \in DOMAIN hist : hist[i][1] = "boot"}) - 1

\* A fresh directory and a newly constructed engine with the given tunables.
InitWith(limit, threshold) ==
    /\ mem_limit = limit
    /\ compaction_threshold = threshold
    /\ wal = <<>>
    /\ files = EmptyMap
    /\ store = replay(<<>>)
    /\ segments = <<>>
    /\ wal_mu = 0
    /\ mem_mu = [x |-> 0, s |-> {}]
    /\ seg_mu = 0
    /\ th = [t \in Threads |-> IdleTh]
    /\ hist = << <<"boot", [k \in Keys |-> <<"KEY_NOT_FOUND", <<>> >>]>> >>

Init == InitWith(MemLimit, CompactionThreshold)

InitSmall == InitWith(MemLimit, SmallThreshold)

\* The concurrent runs are short, so they also run an engine that flushes and
\* compacts on every put.
\* An engine that flushes on every put and compacts on every second flush.
InitRace == InitWith(TinyLimit, SmallThreshold)

InitConc ==
    \/ InitWith(MemLimit, CompactionThreshold)
    \/ InitWith(TinyLimit, TinyThreshold)

\* ---------------------------------------------------------------- locks
MemFree == mem_mu.x = 0 /\ mem_mu.s = {}
LockExclusive(t) == [mem_mu EXCEPT !.x = t]
LockShared(t) == [mem_mu EXCEPT !.s = @ \cup {t}]
UnlockMem(t) == [x |-> IF mem_mu.x = t THEN 0 ELSE mem_mu.x, s |-> mem_mu.s \ {t}]

Goto(t, where) == th' = [th EXCEPT ![t].pc = where]

\* A call of put is about to return: line 71, return Status::OK().
GotoPutRet(t) == th' = [th EXCEPT ![t].pc = "put_ret", ![t].status = "OK"]

\* ------------------------------------------------------------------ put
put(t, k, v) ==
    /\ th[t].pc = "idle"
    /\ th' = [th EXCEPT ![t] = [IdleTh EXCEPT !.pc = "put_wlock", !.key = k, !.val = v]]
    /\ UNCHANGED <<wal, files, store, segments, wal_mu, mem_mu, seg_mu, hist, mem_limit, compaction_threshold>>

PutWalLock(t) ==
    /\ th[t].pc = "put_wlock"
    /\ wal_mu = 0
    /\ wal_mu' = t
    /\ Goto(t, "put_append")
    /\ UNCHANGED <<wal, files, store, segments, mem_mu, seg_mu, hist, mem_limit, compaction_threshold>>

\* wal_->appendPut under wal_mu_ (write, write, fsync), then the unlock.
PutAppend(t) ==
    /\ th[t].pc = "put_append"
    /\ wal' = wal \o AppendBytes(REC_PUT, th[t].key, th[t].val)
    /\ wal_mu' = 0
    /\ Goto(t, "put_mlock")
    /\ UNCHANGED <<files, store, segments, mem_mu, seg_mu, hist, mem_limit, compaction_threshold>>

PutMemLock(t) ==
    /\ th[t].pc = "put_mlock"
    /\ MemFree
    /\ mem_mu' = LockExclusive(t)
    /\ Goto(t, "put_store")
    /\ UNCHANGED <<wal, files, store, segments, wal_mu, seg_mu, hist, mem_limit, compaction_threshold>>

PutStore(t) ==
    /\ th[t].pc = "put_store"
    /\ store' = MapPut(store, th[t].key, th[t].val)
    /\ mem_mu' = UnlockMem(t)
    /\ Goto(t, "put_rlock")
    /\ hist' = Append(hist, <<"put", th[t].key, th[t].val, "OK">>)
    /\ UNCHANGED <<wal, files, segments, wal_mu, seg_mu, mem_limit, compaction_threshold>>

PutSizeLock(t) ==
    /\ th[t].pc = "put_rlock"
    /\ mem_mu.x = 0
    /\ mem_mu' = LockShared(t)
    /\ Goto(t, "put_size")
    /\ UNCHANGED <<wal, files, store, segments, wal_mu, seg_mu, hist, mem_limit, compaction_threshold>>

\* A size check that asks for more than mem_limit entries.
PutSizeStrict(t) ==
    /\ th[t].pc = "put_size"
    /\ LET need == Cardinality(DOMAIN store) > mem_limit
       IN  th' = [th EXCEPT ![t].flush_needed = need,
                            ![t].pc = IF need THEN "fl_mlock" ELSE "put_ret",
                            ![t].status = IF need THEN "" ELSE "OK"]
    /\ mem_mu' = UnlockMem(t)
    /\ UNCHANGED <<wal, files, store, segments, wal_mu, seg_mu, hist, mem_limit, compaction_threshold>>

PutSize(t) ==
    /\ th[t].pc = "put_size"
    /\ LET need == Cardinality(DOMAIN store) >= mem_limit
       IN  th' = [th EXCEPT ![t].flush_needed = need,
                            ![t].pc = IF need THEN "fl_mlock" ELSE "put_ret",
                            ![t].status = IF need THEN "" ELSE "OK"]
    /\ mem_mu' = UnlockMem(t)
    /\ UNCHANGED <<wal, files, store, segments, wal_mu, seg_mu, hist, mem_limit, compaction_threshold>>

\* return Status::OK(): the only status put returns.  The caller takes it.
PutReturn(t) ==
    /\ th[t].pc = "put_ret"
    /\ th' = [th EXCEPT ![t] = IdleTh]
    /\ UNCHANGED <<wal, files, store, segments, wal_mu, mem_mu, seg_mu, hist, mem_limit, compaction_threshold>>

\* -------------------------------------------------------- flush_memtable
FlushMemLock(t) ==
    /\ th[t].pc = "fl_mlock"
    /\ MemFree
    /\ mem_mu' = LockExclusive(t)
    /\ Goto(t, "fl_swap")
    /\ UNCHANGED <<wal, files, store, segments, wal_mu, seg_mu, hist, mem_limit, compaction_threshold>>

\* A drain whose lock on mem_mu_ lives to the end of flush_memtable.
FlushSwapKeepsLock(t) ==
    /\ th[t].pc = "fl_swap"
    /\ th' = [th EXCEPT ![t].snapshot = store, ![t].pc = "fl_name"]
    /\ store' = EmptyMap
    /\ hist' = Append(hist, <<"flush", store>>)
    /\ UNCHANGED <<wal, files, segments, wal_mu, mem_mu, seg_mu, mem_limit, compaction_threshold>>

FlushSwap(t) ==
    /\ th[t].pc = "fl_swap"
    /\ th' = [th EXCEPT ![t].snapshot = store, ![t].pc = "fl_name"]
    /\ store' = EmptyMap
    /\ mem_mu' = UnlockMem(t)
    /\ hist' = Append(hist, <<"flush", store>>)
    /\ UNCHANGED <<wal, files, segments, wal_mu, seg_mu, mem_limit, compaction_threshold>>

\* name << "segments/seg_" << segments_.size(): read without seg_mu_.
FlushName(t) ==
    /\ th[t].pc = "fl_name"
    /\ th' = [th EXCEPT ![t].name = Len(segments), ![t].pc = "fl_write"]
    /\ UNCHANGED <<wal, files, store, segments, wal_mu, mem_mu, seg_mu, hist, mem_limit, compaction_threshold>>

\* A flush that empties the log once the snapshot is in its segment file.
FlushWriteTruncatesLog(t) ==
    /\ th[t].pc = "fl_write"
    /\ files' = MapPut(files, th[t].name, write_segment(th[t].snapshot))
    /\ wal' = <<>>
    /\ Goto(t, "fl_slock")
    /\ UNCHANGED <<store, segments, wal_mu, mem_mu, seg_mu, hist, mem_limit, compaction_threshold>>

FlushWrite(t) ==
    /\ th[t].pc = "fl_write"
    /\ files' = MapPut(files, th[t].name, write_segment(th[t].snapshot))
    /\ Goto(t, "fl_slock")
    /\ UNCHANGED <<wal, store, segments, wal_mu, mem_mu, seg_mu, hist, mem_limit, compaction_threshold>>

FlushSegLock(t) ==
    /\ th[t].pc = "fl_slock"
    /\ seg_mu = 0
    /\ seg_mu' = t
    /\ Goto(t, "fl_push")
    /\ UNCHANGED <<wal, files, store, segments, wal_mu, mem_mu, hist, mem_limit, compaction_threshold>>

FlushPush(t) ==
    /\ th[t].pc = "fl_push"
    /\ segments' = Append(segments, th[t].name)
    /\ seg_mu' = 0
    /\ Goto(t, "fl_check")
    /\ UNCHANGED <<wal, files, store, wal_mu, mem_mu, hist, mem_limit, compaction_threshold>>

\* if(segments_.size() >= compaction_threshold): read without seg_mu_.
FlushCheck(t) ==
    /\ th[t].pc = "fl_check"
    /\ IF Len(segments) >= compaction_threshold
       THEN Goto(t, "co_slock")
       ELSE GotoPutRet(t)
    /\ UNCHANGED <<wal, files, store, segments, wal_mu, mem_mu, seg_mu, hist, mem_limit, compaction_threshold>>

\* ------------------------------------------------------ compact_segments
CompactSegLock(t) ==
    /\ th[t].pc = "co_slock"
    /\ seg_mu = 0
    /\ seg_mu' = t
    /\ Goto(t, "co_swap")
    /\ hist' = Append(hist, <<"compact", View>>)
    /\ UNCHANGED <<wal, files, store, segments, wal_mu, mem_mu, mem_limit, compaction_threshold>>

CompactSwap(t) ==
    /\ th[t].pc = "co_swap"
    /\ th' = [th EXCEPT ![t].local_segments = segments, ![t].merged = EmptyMap,
                        ![t].i = 1, ![t].pc = "co_read"]
    /\ segments' = <<>>
    /\ seg_mu' = 0
    /\ UNCHANGED <<wal, files, store, wal_mu, mem_mu, hist, mem_limit, compaction_threshold>>

\* One turn of for(seg : local_segments) read_segment(seg, merged).
CompactRead(t) ==
    /\ th[t].pc = "co_read"
    /\ th[t].i <= Len(th[t].local_segments)
    /\ th' = [th EXCEPT ![t].merged =
                            read_segment(files, th[t].local_segments[th[t].i], @),
                        ![t].i = @ + 1]
    /\ UNCHANGED <<wal, files, store, segments, wal_mu, mem_mu, seg_mu, hist, mem_limit, compaction_threshold>>

\* name << "segments/seg_" << segments_.size(): read after the swap, without seg_mu_.
CompactName(t) ==
    /\ th[t].pc = "co_read"
    /\ th[t].i > Len(th[t].local_segments)
    /\ th' = [th EXCEPT ![t].name = Len(segments), ![t].pc = "co_write"]
    /\ UNCHANGED <<wal, files, store, segments, wal_mu, mem_mu, seg_mu, hist, mem_limit, compaction_threshold>>

CompactWrite(t) ==
    /\ th[t].pc = "co_write"
    /\ files' = MapPut(files, th[t].name, write_segment(th[t].merged))
    /\ Goto(t, "co_slock2")
    /\ UNCHANGED <<wal, store, segments, wal_mu, mem_mu, seg_mu, hist, mem_limit, compaction_threshold>>

CompactSegLock2(t) ==
    /\ th[t].pc = "co_slock2"
    /\ seg_mu = 0
    /\ seg_mu' = t
    /\ Goto(t, "co_install")
    /\ UNCHANGED <<wal, files, store, segments, wal_mu, mem_mu, hist, mem_limit, compaction_threshold>>

Range(s) == {s[j] : j \in DOMAIN s}

\* An install that pushes the name without clearing the stack first.
CompactInstallNoClear(t) ==
    /\ th[t].pc = "co_install"
    /\ files' = [p \in (DOMAIN files) \ Range(th[t].local_segments) |-> files[p]]
    /\ segments' = Append(segments, th[t].name)
    /\ seg_mu' = 0
    /\ Goto(t, "co_ret")
    /\ UNCHANGED <<wal, store, wal_mu, mem_mu, hist, mem_limit, compaction_threshold>>

\* Under seg_mu_: unlink every local segment, clear the stack, push the name.
CompactInstall(t) ==
    /\ th[t].pc = "co_install"
    /\ files' = [p \in (DOMAIN files) \ Range(th[t].local_segments) |-> files[p]]
    /\ segments' = <<th[t].name>>
    /\ seg_mu' = 0
    /\ Goto(t, "co_ret")
    /\ UNCHANGED <<wal, store, wal_mu, mem_mu, hist, mem_limit, compaction_threshold>>

\* compact_segments and flush_memtable return into put.
CompactReturn(t) ==
    /\ th[t].pc = "co_ret"
    /\ GotoPutRet(t)
    /\ UNCHANGED <<wal, files, store, segments, wal_mu, mem_mu, seg_mu, hist, mem_limit, compaction_threshold>>

\* ------------------------------------------------------------------ del
del(t, k) ==
    /\ th[t].pc = "idle"
    /\ th' = [th EXCEPT ![t] = [IdleTh EXCEPT !.pc = "del_wlock", !.key = k]]
    /\ UNCHANGED <<wal, files, store, segments, wal_mu, mem_mu, seg_mu, hist, mem_limit, compaction_threshold>>

DelWalLock(t) ==
    /\ th[t].pc = "del_wlock"
    /\ wal_mu = 0
    /\ wal_mu' = t
    /\ Goto(t, "del_append")
    /\ UNCHANGED <<wal, files, store, segments, mem_mu, seg_mu, hist, mem_limit, compaction_threshold>>

\* A del that logs its record only for a key the memory index holds.
DelAppendIfPresent(t) ==
    /\ th[t].pc = "del_append"
    /\ wal' = IF th[t].key \in DOMAIN store
              THEN wal \o AppendBytes(REC_DEL, th[t].key, <<>>)
              ELSE wal
    /\ wal_mu' = 0
    /\ Goto(t, "del_mlock")
    /\ UNCHANGED <<files, store, segments, mem_mu, seg_mu, hist, mem_limit, compaction_threshold>>

DelAppend(t) ==
    /\ th[t].pc = "del_append"
    /\ wal' = wal \o AppendBytes(REC_DEL, th[t].key, <<>>)
    /\ wal_mu' = 0
    /\ Goto(t, "del_mlock")
    /\ UNCHANGED <<files, store, segments, mem_mu, seg_mu, hist, mem_limit, compaction_threshold>>

DelMemLock(t) ==
    /\ th[t].pc = "del_mlock"
    /\ MemFree
    /\ mem_mu' = LockExclusive(t)
    /\ Goto(t, "del_erase")
    /\ UNCHANGED <<wal, files, store, segments, wal_mu, seg_mu, hist, mem_limit, compaction_threshold>>

\* A del that acknowledges every deletion, whether or not the key was held.
DelEraseAlwaysOK(t) ==
    /\ th[t].pc = "del_erase"
    /\ store' = MapErase(store, th[t].key)
    /\ th' = [th EXCEPT ![t].status = "OK", ![t].pc = "del_ret"]
    /\ hist' = Append(hist, <<"del", th[t].key, <<>>, "OK">>)
    /\ mem_mu' = UnlockMem(t)
    /\ UNCHANGED <<wal, files, segments, wal_mu, seg_mu, mem_limit, compaction_threshold>>

DelErase(t) ==
    /\ th[t].pc = "del_erase"
    /\ LET found == th[t].key \in DOMAIN store
           status == IF found THEN "OK" ELSE "KEY_NOT_FOUND"
       IN  /\ store' = IF found THEN MapErase(store, th[t].key) ELSE store
           /\ th' = [th EXCEPT ![t].status = status, ![t].pc = "del_ret"]
           /\ hist' = Append(hist, <<"del", th[t].key, <<>>, status>>)
    /\ mem_mu' = UnlockMem(t)
    /\ UNCHANGED <<wal, files, segments, wal_mu, seg_mu, mem_limit, compaction_threshold>>

DelReturn(t) ==
    /\ th[t].pc = "del_ret"
    /\ th' = [th EXCEPT ![t] = IdleTh]
    /\ UNCHANGED <<wal, files, store, segments, wal_mu, mem_mu, seg_mu, hist, mem_limit, compaction_threshold>>

\* ------------------------------------------------------------------ get
\* What the caller's *value holds before the call.
Untouched == <<0>>

get_call(t, k) ==
    /\ th[t].pc = "idle"
    /\ th' = [th EXCEPT ![t] = [IdleTh EXCEPT !.pc = "get_rlock", !.key = k,
                                             !.out = Untouched]]
    /\ UNCHANGED <<wal, files, store, segments, wal_mu, mem_mu, seg_mu, hist, mem_limit, compaction_threshold>>

\* The same entry into get, with the moment of the call noted in hist.
get_begin(t, k) ==
    /\ th[t].pc = "idle"
    /\ th' = [th EXCEPT ![t] = [IdleTh EXCEPT !.pc = "get_rlock", !.key = k,
                                             !.out = Untouched]]
    /\ hist' = Append(hist, <<"get", k, t>>)
    /\ UNCHANGED <<wal, files, store, segments, wal_mu, mem_mu, seg_mu, mem_limit, compaction_threshold>>

GetMemLock(t) ==
    /\ th[t].pc = "get_rlock"
    /\ mem_mu.x = 0
    /\ mem_mu' = LockShared(t)
    /\ Goto(t, "get_find")
    /\ UNCHANGED <<wal, files, store, segments, wal_mu, seg_mu, hist, mem_limit, compaction_threshold>>

\* A lookup that asks the segments first and the memory index only on a miss.
GetFindSegmentsFirst(t) ==
    /\ th[t].pc = "get_find"
    /\ LET r == GetIn(EmptyMap, segments, files, th[t].key)
       IN  IF r[1] = "OK"
           THEN th' = [th EXCEPT ![t].out = r[2], ![t].status = "OK", ![t].pc = "get_ret"]
           ELSE IF th[t].key \in DOMAIN store
           THEN th' = [th EXCEPT ![t].out = store[th[t].key], ![t].status = "OK",
                                 ![t].pc = "get_ret"]
           ELSE Goto(t, "get_slock")
    /\ mem_mu' = UnlockMem(t)
    /\ UNCHANGED <<wal, files, store, segments, wal_mu, seg_mu, hist, mem_limit, compaction_threshold>>

GetFind(t) ==
    /\ th[t].pc = "get_find"
    /\ IF th[t].key \in DOMAIN store
       THEN th' = [th EXCEPT ![t].out = store[th[t].key], ![t].status = "OK",
                             ![t].pc = "get_ret"]
       ELSE Goto(t, "get_slock")
    /\ mem_mu' = UnlockMem(t)
    /\ UNCHANGED <<wal, files, store, segments, wal_mu, seg_mu, hist, mem_limit, compaction_threshold>>

GetSegLock(t) ==
    /\ th[t].pc = "get_slock"
    /\ seg_mu = 0
    /\ seg_mu' = t
    /\ th' = [th EXCEPT ![t].i = Len(segments), ![t].pc = "get_scan"]
    /\ UNCHANGED <<wal, files, store, segments, wal_mu, mem_mu, hist, mem_limit, compaction_threshold>>

\* One turn of the rbegin..rend loop, seg_mu_ held: read_from_segment(*it).
GetScan(t) ==
    /\ th[t].pc = "get_scan"
    /\ th[t].i >= 1
    /\ LET r == read_from_segment(files, segments[th[t].i], th[t].key)
       IN  IF r[1]
           THEN /\ th' = [th EXCEPT ![t].out = r[2], ![t].status = "OK",
                                    ![t].pc = "get_ret"]
                /\ seg_mu' = 0
           ELSE /\ th' = [th EXCEPT ![t].i = @ - 1]
                /\ seg_mu' = seg_mu
    /\ UNCHANGED <<wal, files, store, segments, wal_mu, mem_mu, hist, mem_limit, compaction_threshold>>

\* The not-found return of a get that locks seg_mu_ by hand and forgets the
\* unlock on this path.
GetMissKeepsLock(t) ==
    /\ th[t].pc = "get_scan"
    /\ th[t].i = 0
    /\ th' = [th EXCEPT ![t].status = "KEY_NOT_FOUND", ![t].pc = "get_ret"]
    /\ UNCHANGED <<wal, files, store, segments, wal_mu, mem_mu, seg_mu, hist, mem_limit, compaction_threshold>>

\* A not-found return that has cleared the caller's value on the way.
GetMissClearsOut(t) ==
    /\ th[t].pc = "get_scan"
    /\ th[t].i = 0
    /\ seg_mu' = 0
    /\ th' = [th EXCEPT ![t].status = "KEY_NOT_FOUND", ![t].out = <<>>,
                        ![t].pc = "get_ret"]
    /\ UNCHANGED <<wal, files, store, segments, wal_mu, mem_mu, hist, mem_limit, compaction_threshold>>

GetMiss(t) ==
    /\ th[t].pc = "get_scan"
    /\ th[t].i = 0
    /\ seg_mu' = 0
    /\ th' = [th EXCEPT ![t].status = "KEY_NOT_FOUND", ![t].pc = "get_ret"]
    /\ UNCHANGED <<wal, files, store, segments, wal_mu, mem_mu, hist, mem_limit, compaction_threshold>>

GetReturn(t) ==
    /\ th[t].pc = "get_ret"
    /\ th' = [th EXCEPT ![t] = IdleTh]
    /\ UNCHANGED <<wal, files, store, segments, wal_mu, mem_mu, seg_mu, hist, mem_limit, compaction_threshold>>

\* ----------------------------------------------------- failing log write
\* WALImpl::append when write() fails (disk full, I/O error): nothing reaches
\* the file; append ignores write's result and returns OK, and put/del ignore
\* append's status.
PutAppendFail(t) ==
    /\ th[t].pc = "put_append"
    /\ wal_mu' = 0
    /\ th' = [th EXCEPT ![t].wfail = TRUE, ![t].pc = "put_mlock"]
    /\ UNCHANGED <<wal, files, store, segments, mem_mu, seg_mu, hist, mem_limit, compaction_threshold>>

DelAppendFail(t) ==
    /\ th[t].pc = "del_append"
    /\ wal_mu' = 0
    /\ th' = [th EXCEPT ![t].wfail = TRUE, ![t].pc = "del_mlock"]
    /\ UNCHANGED <<wal, files, store, segments, mem_mu, seg_mu, hist, mem_limit, compaction_threshold>>

\* --------------------------------------------------- failing segment write
\* write_segment when open() fails (no file is made) or when the first write()
\* fails (the file exists, truncated and empty): it returns an error status,
\* which flush_memtable does not look at.
FlushWriteFail(t) ==
    /\ th[t].pc = "fl_write"
    /\ \/ files' = files
       \/ files' = MapPut(files, th[t].name, <<>>)
    /\ th' = [th EXCEPT ![t].sfail = TRUE, ![t].pc = "fl_slock"]
    /\ UNCHANGED <<wal, store, segments, wal_mu, mem_mu, seg_mu, hist, mem_limit, compaction_threshold>>

\* ------------------------------------------------- damaged segment file
\* What a file can look like after damage at word pos: cut there, the word
\* there overwritten with another one, or (pos just past the end) a word
\* appended.
Damaged(bytes, pos) ==
    IF pos > Len(bytes) THEN {bytes \o <<g>> : g \in Garbage}
    ELSE {SubSeq(bytes, 1, pos - 1)}
         \cup {[bytes EXCEPT ![pos] = g] : g \in Garbage \ {bytes[pos]}}

\* Something outside the engine damages a segment file between two calls
\* (main.cpp corruption_test writes junk into segments/seg_0.sst).
Corrupt ==
    /\ Quiescent
    /\ Cardinality({i \in DOMAIN hist : hist[i][1] = "corrupt"}) < MaxCorruptions
    /\ \E path \in DOMAIN files : \E pos \in 1..(Len(files[path]) + 1) :
           \E now \in Damaged(files[path], pos) :
               /\ files' = MapPut(files, path, now)
               /\ hist' = Append(hist, <<"corrupt", path, pos, files[path], now>>)
    /\ UNCHANGED <<wal, store, segments, wal_mu, mem_mu, seg_mu, th, mem_limit, compaction_threshold>>

\* --------------------------------------------------------- damaged log
\* While the engine is down the log gets damaged (a torn tail after a crash, a
\* flipped word, junk at the end); the next thing that happens is a start.
CorruptLog ==
    /\ Quiescent
    /\ Cardinality({i \in DOMAIN hist : hist[i][1] = "logcorrupt"}) < MaxLogCorruptions
    /\ \E pos \in 1..(Len(wal) + 1) : \E now \in Damaged(wal, pos) :
           /\ wal' = now
           /\ hist' = Append(hist, <<"logcorrupt", pos, wal, now>>)
    /\ UNCHANGED <<files, store, segments, wal_mu, mem_mu, seg_mu, th, mem_limit, compaction_threshold>>

\* ------------------------------------------------- the segment codec alone
\* A caller of segment.h: write_segment(path, m) for a map m, then
\* read_segment(path, out) into an empty map.  The thread record holds the
\* caller's locals: snapshot is m, name the path, merged is out.
CodecMaps == UNION {[D -> CodecVals] : D \in SUBSET CodecKeys}

SegWrite(t, m) ==
    /\ th[t].pc = "idle"
    /\ files' = MapPut(files, 0, write_segment(m))
    /\ th' = [th EXCEPT ![t].pc = "seg_written", ![t].snapshot = m, ![t].name = 0]
    /\ UNCHANGED <<wal, store, segments, wal_mu, mem_mu, seg_mu, hist, mem_limit, compaction_threshold>>

SegRead(t) ==
    /\ th[t].pc = "seg_written"
    /\ th' = [th EXCEPT ![t].pc = "seg_read",
                        ![t].merged = read_segment(files, th[t].name, EmptyMap)]
    /\ UNCHANGED <<wal, files, store, segments, wal_mu, mem_mu, seg_mu, hist, mem_limit, compaction_threshold>>

SegDone(t) ==
    /\ th[t].pc = "seg_read"
    /\ th' = [th EXCEPT ![t] = IdleTh]
    /\ UNCHANGED <<wal, files, store, segments, wal_mu, mem_mu, seg_mu, hist, mem_limit, compaction_threshold>>

\* ------------------------------------------------- the log codec alone
\* A caller of wal.h on an initially empty log: appendPut and appendDel calls,
\* then replay(fn) with an fn that collects its calls (in the caller's out).
WalAppendPut(t, k, v) ==
    /\ th[t].pc = "idle"
    /\ wal' = wal \o AppendBytes(REC_PUT, k, v)
    /\ hist' = Append(hist, <<"appendPut", k, v>>)
    /\ UNCHANGED <<files, store, segments, wal_mu, mem_mu, seg_mu, th, mem_limit, compaction_threshold>>

WalAppendDel(t, k) ==
    /\ th[t].pc = "idle"
    /\ wal' = wal \o AppendBytes(REC_DEL, k, <<>>)
    /\ hist' = Append(hist, <<"appendDel", k, <<>> >>)
    /\ UNCHANGED <<files, store, segments, wal_mu, mem_mu, seg_mu, th, mem_limit, compaction_threshold>>

WalReplay(t) ==
    /\ th[t].pc = "idle"
    /\ th' = [th EXCEPT ![t].pc = "wal_replayed", ![t].out = ReplayFrom(wal, 1),
                        ![t].status = "OK"]
    /\ UNCHANGED <<wal, files, store, segments, wal_mu, mem_mu, seg_mu, hist, mem_limit, compaction_threshold>>

WalDone(t) ==
    /\ th[t].pc = "wal_replayed"
    /\ th' = [th EXCEPT ![t] = IdleTh]
    /\ UNCHANGED <<wal, files, store, segments, wal_mu, mem_mu, seg_mu, hist, mem_limit, compaction_threshold>>

\* -------------------------------------------------------------- restart
\* The process ends between calls (kill or delete engine: the destructor only
\* closes the log) and CreateKVEngine() runs again on the same directory: the
\* constructor replays the log into store_; segments_ starts empty.
\* A constructor that empties the log once it has replayed it.
RestartTruncating(max) ==
    /\ Quiescent
    /\ Restarts < max
    /\ store' = replay(wal)
    /\ wal' = <<>>
    /\ segments' = <<>>
    /\ hist' = Append(hist, <<"boot", [k \in Keys |-> GetIn(replay(wal), <<>>, files, k)]>>)
    /\ UNCHANGED <<files, wal_mu, mem_mu, seg_mu, th, mem_limit, compaction_threshold>>

RestartUpTo(max) ==
    /\ Quiescent
    /\ Restarts < max
    /\ store' = replay(wal)
    /\ segments' = <<>>
    /\ hist' = Append(hist, <<"boot", [k \in Keys |-> GetIn(replay(wal), <<>>, files, k)]>>)
    /\ UNCHANGED <<wal, files, wal_mu, mem_mu, seg_mu, th, mem_limit, compaction_threshold>>

Restart == RestartUpTo(MaxRestarts)

RestartFault == RestartUpTo(MaxRestartsFault)

RestartLife == RestartUpTo(MaxRestartsLife)

RestartLog == RestartUpTo(MaxRestartsLog)

\* ------------------------------------------------------- specifications
Step(t) ==
    \/ PutWalLock(t) \/ PutAppend(t) \/ PutMemLock(t) \/ PutStore(t)
    \/ PutSizeLock(t) \/ PutSize(t) \/ PutReturn(t)
    \/ FlushMemLock(t) \/ FlushSwap(t) \/ FlushName(t) \/ FlushWrite(t)
    \/ FlushSegLock(t) \/ FlushPush(t) \/ FlushCheck(t)
    \/ CompactSegLock(t) \/ CompactSwap(t) \/ CompactRead(t) \/ CompactName(t)
    \/ CompactWrite(t) \/ CompactSegLock2(t) \/ CompactInstall(t) \/ CompactReturn(t)
    \/ DelWalLock(t) \/ DelAppend(t) \/ DelMemLock(t) \/ DelErase(t) \/ DelReturn(t)

\* One caller (thread 1) issuing put and del, one call at a time.
Next ==
    \/ \E k \in Keys, v \in Vals : Calls < MaxCalls /\ put(1, k, v)
    \/ \E k \in Keys : Calls < MaxCalls /\ del(1, k)
    \/ Step(1)

\* The same caller, with engine restarts between its calls.
NextRestart ==
    \/ \E k \in Keys, v \in Vals : Calls < MaxCallsRestart /\ put(1, k, v)
    \/ \E k \in Keys : Calls < MaxCallsRestart /\ del(1, k)
    \/ Step(1)
    \/ Restart

SpecRestart == InitSmall /\ [][NextRestart]_vars

GetStep(t) ==
    \/ GetMemLock(t) \/ GetFind(t) \/ GetSegLock(t) \/ GetScan(t) \/ GetMiss(t)
    \/ GetReturn(t)

\* put and del calls of a concurrent run: fewer on the engine that flushes and
\* compacts on every put.
CallsConc == IF mem_limit = TinyLimit THEN MaxCallsTiny ELSE MaxCallsConc

\* Several threads calling put, get and del concurrently.
NextConc ==
    \/ \E t \in Threads, k \in Keys, v \in Vals : Calls < CallsConc /\ put(t, k, v)
    \/ \E t \in Threads, k \in Keys : Calls < CallsConc /\ del(t, k)
    \/ \E t \in Threads, k \in Keys : get_call(t, k)
    \/ \E t \in Threads : Step(t) \/ GetStep(t)

SpecConc == InitConc /\ [][NextConc]_vars

\* The steps of a put call, flush_memtable and compact_segments included.
PutStep(t) ==
    \/ PutWalLock(t) \/ PutAppend(t) \/ PutMemLock(t) \/ PutStore(t)
    \/ PutSizeLock(t) \/ PutSize(t) \/ PutReturn(t)
    \/ FlushMemLock(t) \/ FlushSwap(t) \/ FlushName(t) \/ FlushWrite(t)
    \/ FlushSegLock(t) \/ FlushPush(t) \/ FlushCheck(t)
    \/ CompactSegLock(t) \/ CompactSwap(t) \/ CompactRead(t) \/ CompactName(t)
    \/ CompactWrite(t) \/ CompactSegLock2(t) \/ CompactInstall(t) \/ CompactReturn(t)

\* Threads calling put concurrently on an engine in which every put flushes.
NextRace ==
    \/ \E t \in Threads, k \in RaceKeys, v \in RaceVals :
           Calls < MaxCallsRace /\ put(t, k, v)
    \/ \E t \in Threads : PutStep(t)

SpecRace == InitRace /\ [][NextRace]_vars

\* The concurrent callers under a fair scheduler and fair locks: a thread that
\* can take a step again and again takes one.
SpecConcFair ==
    /\ InitConc
    /\ [][NextConc]_vars
    /\ \A t \in Threads : SF_vars(Step(t) \/ GetStep(t))

\* One caller, on a disk whose log writes may fail, with engine restarts
\* between its calls.
NextFault ==
    \/ \E k \in Keys, v \in Vals : Calls < MaxCallsFault /\ put(1, k, v)
    \/ \E k \in Keys : Calls < MaxCallsFault /\ del(1, k)
    \/ Step(1)
    \/ PutAppendFail(1)
    \/ DelAppendFail(1)
    \/ RestartFault

SpecFault == InitSmall /\ [][NextFault]_vars

\* One caller, on a disk where writing a segment file may fail.
NextSegFault ==
    \/ \E k \in Keys, v \in Vals : Calls < MaxCallsFault /\ put(1, k, v)
    \/ \E k \in Keys : Calls < MaxCallsFault /\ del(1, k)
    \/ Step(1)
    \/ FlushWriteFail(1)

SpecSegFault == InitSmall /\ [][NextSegFault]_vars

\* One caller: put and del calls, then damage to a segment file, then gets.
NextCorrupt ==
    \/ \E k \in Keys, v \in Vals :
           Calls < MaxCallsCorrupt /\ hist[Len(hist)][1] # "corrupt" /\ put(1, k, v)
    \/ \E k \in Keys :
           Calls < MaxCallsCorrupt /\ hist[Len(hist)][1] # "corrupt" /\ del(1, k)
    \/ Step(1)
    \/ Corrupt
    \/ \E k \in Keys : hist[Len(hist)][1] = "corrupt" /\ get_call(1, k)
    \/ GetStep(1)

SpecCorrupt == InitSmall /\ [][NextCorrupt]_vars

\* One caller issuing put, del and get, one call at a time.
NextGet ==
    \/ \E k \in Keys, v \in Vals : Calls < MaxCallsGet /\ put(1, k, v)
    \/ \E k \in Keys : Calls < MaxCallsGet /\ del(1, k)
    \/ \E k \in Keys : get_call(1, k)
    \/ Step(1)
    \/ GetStep(1)

SpecGet == InitSmall /\ [][NextGet]_vars

\* One caller issuing put, del and get, with engine restarts between calls.
NextLife ==
    \/ \E k \in Keys, v \in Vals : Calls < MaxCallsLife /\ put(1, k, v)
    \/ \E k \in Keys : Calls < MaxCallsLife /\ del(1, k)
    \/ \E k \in Keys : get_call(1, k)
    \/ Step(1)
    \/ GetStep(1)
    \/ RestartLife

SpecLife == InitSmall /\ [][NextLife]_vars

\* One caller issuing put and del on the engine with the code's threshold (too
\* few calls for a compaction), with damage to the log while the engine is
\* down, followed by a start.
InitLog == InitWith(MemLimit, CompactionThreshold)

NextLog ==
    \/ \E k \in Keys, v \in Vals :
           Calls < MaxCallsLog /\ hist[Len(hist)][1] # "logcorrupt" /\ put(1, k, v)
    \/ \E k \in Keys :
           Calls < MaxCallsLog /\ hist[Len(hist)][1] # "logcorrupt" /\ del(1, k)
    \/ PutWalLock(1) \/ PutAppend(1) \/ PutMemLock(1) \/ PutStore(1)
    \/ PutSizeLock(1) \/ PutSize(1) \/ PutReturn(1)
    \/ FlushMemLock(1) \/ FlushSwap(1) \/ FlushName(1) \/ FlushWrite(1)
    \/ FlushSegLock(1) \/ FlushPush(1) \/ FlushCheck(1)
    \/ DelWalLock(1) \/ DelAppend(1) \/ DelMemLock(1) \/ DelErase(1) \/ DelReturn(1)
    \/ CorruptLog
    \/ RestartLog

SpecLog == InitLog /\ [][NextLog]_vars

\* Thread 1 calls put (its puts flush, too few of them for a compaction)
\* while thread 2 calls get.
NextGetRace ==
    \/ \E k \in Keys, v \in Vals : Calls < MaxCallsGetRace /\ put(1, k, v)
    \/ PutWalLock(1) \/ PutAppend(1) \/ PutMemLock(1) \/ PutStore(1)
    \/ PutSizeLock(1) \/ PutSize(1) \/ PutReturn(1)
    \/ FlushMemLock(1) \/ FlushSwap(1) \/ FlushName(1) \/ FlushWrite(1)
    \/ FlushSegLock(1) \/ FlushPush(1) \/ FlushCheck(1)
    \/ \E k \in Keys :
           Cardinality({i \in DOMAIN hist : hist[i][1] = "get"}) < MaxGetsRace
           /\ get_begin(2, k)
    \/ GetStep(2)

SpecGetRace == InitLog /\ [][NextGetRace]_vars

\* The segment codec driven directly: write a map, read it back, again.
NextSeg ==
    \/ \E m \in CodecMaps : SegWrite(1, m)
    \/ SegRead(1)
    \/ SegDone(1)

SpecSeg == InitSmall /\ [][NextSeg]_vars

\* The log codec driven directly.
NextWal ==
    \/ \E k \in CodecKeys, v \in CodecVals :
           Len(hist) <= MaxRecords /\ WalAppendPut(1, k, v)
    \/ \E k \in CodecKeys : Len(hist) <= MaxRecords /\ WalAppendDel(1, k)
    \/ WalReplay(1)
    \/ WalDone(1)

SpecWal == InitSmall /\ [][NextWal]_vars

Spec == Init /\ [][Next]_vars

\* ================================================================ claims
\* Helpers over the history.
Max(S) == CHOOSE x \in S : \A y \in S : y <= x
Events(kind) == {i \in DOMAIN hist : hist[i][1] = kind}
OpsOn(k) == {i \in DOMAIN hist : hist[i][1] \in {"put", "del"} /\ hist[i][2] = k}
LastOp(k) == hist[Max(OpsOn(k))]
NotFound == <<"KEY_NOT_FOUND", <<>> >>

\* C1: with no del and no restart, once the puts issued so far have returned,
\* get(k) is OK with the value of the last put(k, .) for every key ever put,
\* however many flushes and compactions the puts triggered.
C1_GetReturnsLastPut ==
    (Quiescent /\ Events("del") = {} /\ Restarts = 0) =>
        \A k \in Keys : OpsOn(k) # {} => get(k) = <<"OK", LastOp(k)[3]>>

\* C2: what get answers for every key just after compact_segments has finished
\* equals what it answered just before compact_segments started.
C2_CompactionPreservesView ==
    \A t \in Threads :
        th[t].pc = "co_ret" => View = hist[Max(Events("compact"))][2]

\* The engine has just been constructed again; the lifetime that ended is the
\* part of the history between the previous construction and this one.
JustRestarted == Len(hist) > 1 /\ hist[Len(hist)][1] = "boot" /\ Quiescent
PrevBoot == Max({i \in Events("boot") : i < Len(hist)})
Lifetime == {i \in DOMAIN hist : PrevBoot < i /\ i < Len(hist)}
NoFlushAllOK ==
    \A i \in Lifetime : hist[i][1] \in {"put", "del"} /\ hist[i][4] = "OK"
Prescribed(k) ==
    LET ops == OpsOn(k) \cap Lifetime
    IN  IF ops = {} THEN hist[PrevBoot][2][k]
        ELSE IF hist[Max(ops)][1] = "put" THEN <<"OK", hist[Max(ops)][3]>>
        ELSE NotFound

\* C3: after a lifetime of put/del calls that all returned OK and triggered no
\* flush, a kill and a fresh engine on the same directory, get(k) answers every
\* key as the final state of that lifetime prescribes: OK with the last value
\* put, KEY_NOT_FOUND if last deleted, and as at the start if untouched.
C3_DurabilityWithoutFlush ==
    (JustRestarted /\ NoFlushAllOK) => \A k \in Keys : get(k) = Prescribed(k)

\* The last two operations on k are puts.
TwoPuts(k) ==
    /\ Cardinality(OpsOn(k)) >= 2
    /\ LastOp(k)[1] = "put"
    /\ hist[Max(OpsOn(k) \ {Max(OpsOn(k))})][1] = "put"

\* C4: when put(k,v2) is returning and the operation on k before it was a
\* put(k,v1), get(k) is OK with v2.
C4_LastWriteWins ==
    \A t \in Threads :
        (th[t].pc = "put_ret" /\ TwoPuts(th[t].key)) =>
            get(th[t].key) = <<"OK", th[t].val>>

\* C5: while the last operation on k is a del that returned OK, get(k) is
\* KEY_NOT_FOUND.
C5_DeletedKeyNotFound ==
    Quiescent =>
        \A k \in Keys :
            (OpsOn(k) # {} /\ LastOp(k)[1] = "del" /\ LastOp(k)[4] = "OK") =>
                get(k) = NotFound

\* C6: a key drained by a flush with one value and by a later flush with a new
\* value, not written or deleted since, reads as OK with the second value.
C6_RecencyAcrossSegments ==
    Quiescent =>
        \A k \in Keys : \A i, j \in Events("flush") :
            ( /\ i < j
              /\ k \in DOMAIN hist[i][2]
              /\ k \in DOMAIN hist[j][2]
              /\ hist[i][2][k] # hist[j][2][k]
              /\ \A o \in OpsOn(k) : o < j ) =>
                get(k) = <<"OK", hist[j][2][k]>>

\* C7: when the put that ran a flush is returning, get(k) is OK with the
\* drained value for every key of the drained snapshot, also when the flush ran
\* compaction.
C7_ReadableAfterFlush ==
    \A t \in Threads :
        (th[t].pc = "put_ret" /\ th[t].flush_needed) =>
            \A k \in DOMAIN th[t].snapshot : get(k) = <<"OK", th[t].snapshot[k]>>

\* C8: when a compaction has completed, exactly one segment file is on disk:
\* every input is unlinked, the output file exists, and the stack's single
\* entry is the path of that file.
C8_OneSegmentAfterCompaction ==
    \A t \in Threads :
        th[t].pc = "co_ret" =>
            /\ Cardinality(DOMAIN files) = 1
            /\ Range(th[t].local_segments) \cap DOMAIN files = {}
            /\ th[t].name \in DOMAIN files
            /\ segments = <<th[t].name>>

\* The records a replay reads from the log, and how many of them equal r.
LogRecords == ReplayFrom(wal, 1)
InLog(r) == Cardinality({i \in DOMAIN LogRecords : LogRecords[i] = r})
Mutations(kind, k, v) ==
    Cardinality({i \in DOMAIN hist :
                    hist[i][1] = kind /\ hist[i][2] = k /\ hist[i][3] = v})

\* C9: every put and del that has reached the memory index has its record in
\* the log (appended and synced) already, so a get never answers OK with a
\* value for which the log holds no put record.
C9_LogBeforeMemory ==
    /\ \A k \in Keys : \A v \in Vals :
           InLog(<<"PUT", k, v>>) >= Mutations("put", k, v)
    /\ \A k \in Keys : InLog(<<"DEL", k, <<>> >>) >= Mutations("del", k, <<>>)
    /\ \A k \in Keys :
           get(k)[1] = "OK" => InLog(<<"PUT", k, get(k)[2]>>) >= 1

\* C10: a put or del whose log append failed never goes on to the memory index
\* and returns WAL_WRITE_FAILED.
C10_FailedAppendReturnsError ==
    \A t \in Threads :
        th[t].wfail =>
            /\ th[t].pc \notin {"put_store", "del_erase"}
            /\ (th[t].pc \in {"put_ret", "del_ret"} =>
                    th[t].status = "WAL_WRITE_FAILED")

\* C11: when write_segment has failed in a flush, the flush ends there: the
\* put returns an error, the memory index is empty, and the failed path has not
\* been appended to the segment stack.
C11_FailedFlushReturnsError ==
    \A t \in Threads :
        th[t].sfail =>
            /\ th[t].pc = "put_ret"
            /\ th[t].status # "OK"
            /\ store = EmptyMap
            /\ Len(segments) = th[t].name

\* C12: once concurrent puts to a key have returned (no del on the key), the
\* value the memory index holds for the key is the value of the put whose
\* record is last in the log, which is the value a replay of the log produces.
C12_LogOrderIsMemoryOrder ==
    Quiescent =>
        \A k \in Keys :
            (k \in DOMAIN store /\ \A i \in OpsOn(k) : hist[i][1] = "put") =>
                (k \in DOMAIN replay(wal) /\ store[k] = replay(wal)[k])

\* A del call that has not yet looked at the memory index.
DelInProgress(t) == th[t].pc \in {"del_wlock", "del_append", "del_mlock", "del_erase"}

KeysBefore(orig, m, pos) ==
    {k \in DOMAIN m :
        \E first \in 1..Len(orig) :
            LET last == first + Len(SegRecord(k, m[k])) - 1
            IN  last < pos /\ SubSeq(orig, first, last) = SegRecord(k, m[k])}

\* C14: while a segment file is as damage left it, a scan of it yields exactly
\* the records that lie wholly before the damage: read_segment gives the map of
\* those records, read_from_segment finds exactly their keys, and a get that
\* goes to that file returns OK with the value for such a key and
\* KEY_NOT_FOUND, its output untouched, for a key recorded at or after the
\* damage.
C14_ScanStopsAtCorruption ==
    \A i \in Events("corrupt") :
        LET path == hist[i][2]
            orig == hist[i][4]
            m == ReadSegFrom(orig, 1, EmptyMap)
            good == KeysBefore(orig, m, hist[i][3])
        IN  (path \in DOMAIN files /\ files[path] = hist[i][5]) =>
                /\ read_segment(files, path, EmptyMap) = [k \in good |-> m[k]]
                /\ \A k \in Keys :
                       read_from_segment(files, path, k) =
                           IF k \in good THEN <<TRUE, m[k]>> ELSE <<FALSE, <<>> >>
                /\ \A t \in Threads :
                       ( /\ th[t].pc = "get_ret"
                         /\ th[t].key \notin DOMAIN store
                         /\ segments = <<path>> ) =>
                           IF th[t].key \in good
                           THEN th[t].status = "OK" /\ th[t].out = m[th[t].key]
                           ELSE th[t].status = "KEY_NOT_FOUND" /\ th[t].out = Untouched

\* C14's case: a file with a record before the damage and a record at or
\* after it, and a get that has looked for the key of the latter.
C14_Witness ==
    \E i \in Events("corrupt") : \E t \in Threads :
        LET orig == hist[i][4]
            m == ReadSegFrom(orig, 1, EmptyMap)
            good == KeysBefore(orig, m, hist[i][3])
        IN  /\ hist[i][2] \in DOMAIN files /\ files[hist[i][2]] = hist[i][5]
            /\ good # {} /\ good # DOMAIN m
            /\ hist[i][5] # SubSeq(orig, 1, hist[i][3] - 1)
            /\ th[t].pc = "get_ret" /\ th[t].key \in (DOMAIN m) \ good
            /\ th[t].status = "KEY_NOT_FOUND"

C16_SegmentRoundTrip ==
    \A t \in Threads :
        th[t].pc = "seg_read" => th[t].merged = th[t].snapshot

\* C16's case: a map of several entries, one with an empty value and one with
\* an empty key, written and read back.
C16_Witness ==
    \E t \in Threads :
        /\ th[t].pc = "seg_read"
        /\ Cardinality(DOMAIN th[t].snapshot) > 2
        /\ <<>> \in DOMAIN th[t].snapshot
        /\ \E k \in DOMAIN th[t].snapshot : th[t].snapshot[k] = <<>>
        /\ th[t].merged = th[t].snapshot

\* The appendPut and appendDel calls made so far, as the calls replay owes its
\* callback: in order, value empty for a DEL.
Appended ==
    [i \in 1..(Len(hist) - 1) |->
        <<IF hist[i + 1][1] = "appendPut" THEN "PUT" ELSE "DEL",
          hist[i + 1][2],
          IF hist[i + 1][1] = "appendPut" THEN hist[i + 1][3] ELSE <<>> >>]

\* C17: replay of a log made by appendPut and appendDel calls on an empty log
\* calls back once per appended record, in append order, with the type, key
\* and value of the call (empty value for DEL).
C17_IntentRecordRoundTrip ==
    \A t \in Threads :
        th[t].pc = "wal_replayed" => th[t].out = Appended

\* C17's case: a replay of a log that holds a PUT with an empty value, a DEL
\* and a PUT with a value.
C17_Witness ==
    \E t \in Threads :
        /\ th[t].pc = "wal_replayed"
        /\ Len(th[t].out) = MaxRecords
        /\ \E i, j, l \in DOMAIN th[t].out :
               /\ th[t].out[i][1] = "PUT" /\ th[t].out[i][3] = <<>>
               /\ th[t].out[j][1] = "DEL"
               /\ th[t].out[l][1] = "PUT" /\ th[t].out[l][3] # <<>>

\* C18: on an engine just constructed on the directory of an engine that ran a
\* flush, every key of the flushed snapshot that no later del named is
\* answered by get with OK and the value of its last put.
C18_FlushedKeysAfterRestart ==
    JustRestarted =>
        \A f \in Events("flush") \cap Lifetime :
            \A k \in DOMAIN hist[f][2] :
                (\A i \in OpsOn(k) : i > f => hist[i][1] = "put") =>
                    get(k) = <<"OK", LastOp(k)[3]>>

C20_MemoryIndexAuthoritative ==
    [][\A t \in Threads :
          (th[t].pc = "get_find" /\ th[t].key \in DOMAIN store) =>
              \/ th'[t] = th[t]
              \/ /\ th'[t].pc = "get_ret"
                 /\ th'[t].status = "OK"
                 /\ th'[t].out = store[th[t].key]]_vars

\* C20's case: a get has returned the memory index's value for a key for
\* which a segment of the stack holds another value.
C20_Witness ==
    \E t \in Threads :
        /\ th[t].pc = "get_ret" /\ th[t].status = "OK"
        /\ th[t].key \in DOMAIN store /\ th[t].out = store[th[t].key]
        /\ \E i \in DOMAIN segments :
               LET r == read_from_segment(files, segments[i], th[t].key)
               IN  r[1] /\ r[2] # store[th[t].key]

C22_CompactionOutputName ==
    \A t \in Threads :
        th[t].pc \in {"co_write", "co_slock2", "co_install"} =>
            th[t].name = Len(th[t].local_segments)

\* The stack positions of the inputs of t's compaction that hold key k.
InputsWith(t, k) ==
    {i \in DOMAIN th[t].local_segments :
        read_from_segment(files, th[t].local_segments[i], k)[1]}

C24_ReadSegmentInsertIfAbsent ==
    [][\A t \in Threads :
          (th[t].pc = "co_read" /\ th'[t].pc = "co_read") =>
              \A k \in DOMAIN th[t].merged :
                  k \in DOMAIN th'[t].merged /\ th'[t].merged[k] = th[t].merged[k]]_vars

\* C25: whenever every call has returned, the segment stack holds fewer than
\* compaction_threshold paths, and the step that ends a compaction leaves
\* exactly one path in the stack.
C25_StackBelowThreshold ==
    [][/\ Quiescent' => Len(segments') < compaction_threshold
       /\ \A t \in Threads :
              (th[t].pc = "co_install" /\ th'[t].pc = "co_ret") => Len(segments') = 1]_vars

\* C25's case: all calls have returned after a compaction during which the
\* other thread pushed a path.
C25_Witness ==
    /\ Quiescent
    /\ Events("compact") # {}
    /\ \E i \in Events("flush") : i > Max(Events("compact"))
    /\ Len(segments) = 1

\* C26: the engine just constructed has in its segment stack exactly the
\* segment files of the directory, in ascending order of their numbers.
C26_SegmentsDiscoveredAtStart ==
    JustRestarted =>
        /\ Range(segments) = DOMAIN files
        /\ \A i, j \in DOMAIN segments : i < j => segments[i] < segments[j]

\* Thread t holds mem_mu_, exclusive or shared.
HoldsMem(t) == mem_mu.x = t \/ t \in mem_mu.s

\* Thread t is at a log append (with its fsync), a segment write, a segment
\* read or the unlink loop.
InDiskIO(t) ==
    th[t].pc \in {"put_append", "del_append", "fl_write", "co_read", "co_write",
                  "co_install", "get_scan"}

\* C27: no thread holds mem_mu_ while it appends to the log, writes, reads or
\* unlinks a segment file.
C27_MemLockNotHeldAcrossIO ==
    \A t \in Threads : InDiskIO(t) => ~HoldsMem(t)

\* C27's case: one thread writes a segment file while the other holds mem_mu_
\* for its lookup.
C27_Witness ==
    \E t, u \in Threads :
        /\ t # u
        /\ th[t].pc = "fl_write"
        /\ HoldsMem(u) /\ th[u].pc = "get_find"

\* C28: no thread holds seg_mu_ while it scans a segment file (a turn of
\* get's loop) or unlinks segment files (the end of compaction).
C28_SegLockNotHeldAcrossIO ==
    \A t \in Threads :
        ((th[t].pc = "get_scan" /\ th[t].i >= 1) \/ th[t].pc = "co_install") =>
            seg_mu # t

\* C29: every step leaves the log's records as they are or appends exactly one
\* record to them; the appending step is the append of a put (a PUT record of
\* its key and value) or of a del (a DEL record of its key), so get, flush,
\* compaction and the replay of a restart leave the log as it is.
C29_LogAppendOnly ==
    [][\/ wal' = wal
       \/ \E t \in Threads :
             /\ th[t].pc \in {"put_append", "del_append"}
             /\ th'[t].pc # th[t].pc
             /\ SubSeq(wal', 1, Len(wal)) = wal
             /\ ReplayFrom(wal', 1) =
                    Append(ReplayFrom(wal, 1),
                           IF th[t].pc = "put_append"
                           THEN <<"PUT", th[t].key, th[t].val>>
                           ELSE <<"DEL", th[t].key, <<>> >>)]_vars

\* C29's case: after puts, a del, a flush and a restart, a get has run, and
\* the log holds every record.
C29_Witness ==
    /\ Restarts = 1
    /\ Events("flush") # {} /\ Events("del") # {}
    /\ th[1].pc = "get_ret"
    /\ Len(LogRecords) = MaxCallsLife

RECURSIVE OpsIn(_, _)
OpsIn(lo, hi) ==
    IF lo > hi THEN <<>>
    ELSE (IF hist[lo][1] = "put" THEN << <<"PUT", hist[lo][2], hist[lo][3]>> >>
          ELSE IF hist[lo][1] = "del" THEN << <<"DEL", hist[lo][2], <<>> >> >>
          ELSE <<>>)
         \o OpsIn(lo + 1, hi)

\* Words the record of a call takes in the log.
RecLen(op) == 4 + Len(op[2]) + Len(op[3])

\* The longest prefix of ops whose records, laid out from word off + 1, end
\* before word pos.
RECURSIVE WholeBefore(_, _, _)
WholeBefore(ops, pos, off) ==
    IF ops = <<>> \/ off + RecLen(Head(ops)) >= pos THEN <<>>
    ELSE <<Head(ops)>> \o WholeBefore(Tail(ops), pos, off + RecLen(Head(ops)))

RECURSIVE SumLen(_)
SumLen(ops) == IF ops = <<>> THEN 0 ELSE RecLen(Head(ops)) + SumLen(Tail(ops))

\* The calls whose records a replay of the log has to apply: all of them if
\* the log was never damaged; otherwise those recorded wholly before the
\* damage, and those made after it only if the damage was a cut between two
\* records, which leaves no bad record behind.
Replayable ==
    IF Events("logcorrupt") = {} THEN OpsIn(1, Len(hist))
    ELSE LET c == Max(Events("logcorrupt"))
             good == WholeBefore(OpsIn(1, c), hist[c][2], 0)
         IN  IF Len(hist[c][4]) = SumLen(good)
             THEN good \o OpsIn(c, Len(hist))
             ELSE good

\* C31: the memory index of an engine just started holds the result of
\* applying, in order, exactly the records before the first truncated or
\* CRC-mismatching record of the log (put inserts or replaces, del erases),
\* nothing for an empty log; and the damaged bytes stay where they are, new
\* records going after them.
C31_ReplayStopsAtBadRecord ==
    /\ JustRestarted => store = ApplyCalls(Replayable, EmptyMap)
    /\ \A c \in Events("logcorrupt") :
           SubSeq(wal, 1, Len(hist[c][4])) = hist[c][4]

\* C31's case: an engine started on a log with a damaged record in the middle:
\* a record before it is applied, a record after it is not.
C31_Witness ==
    /\ JustRestarted
    /\ Events("logcorrupt") # {}
    /\ Replayable # <<>>
    /\ Len(Replayable) + 1 < Len(OpsIn(1, Len(hist)))
    /\ store # EmptyMap

\* C32: an engine started on a damaged log, whose put and del calls all
\* returned OK without a flush, is killed; the engine started next answers
\* get for every key of those calls as the last of them prescribes.
C32_DurableAfterCorruptTail ==
    ( /\ JustRestarted
      /\ NoFlushAllOK
      /\ \E c \in Events("logcorrupt") : c < PrevBoot ) =>
        \A k \in Keys : OpsOn(k) \cap Lifetime # {} => get(k) = Prescribed(k)

\* C33: a path whose write_segment call failed is never in the segment stack.
C33_OnlyWrittenSegmentsInStack ==
    \A t \in Threads :
        th[t].sfail => \A i \in DOMAIN segments : segments[i] # th[t].name

\* C34: a flush or a compaction never writes to a path at which a file
\* exists, and a file disappears only in the unlink loop of a compaction of
\* which it is an input.
C34_SegmentsImmutable ==
    [][/\ \A t \in Threads :
              (th[t].pc \in {"fl_write", "co_write"} /\ th'[t].pc # th[t].pc) =>
                  th[t].name \notin DOMAIN files
       /\ \A p \in DOMAIN files :
              p \notin DOMAIN files' =>
                  \E t \in Threads :
                      /\ th[t].pc = "co_install" /\ th'[t].pc = "co_ret"
                      /\ p \in Range(th[t].local_segments)]_vars

\* C35: whenever the single caller has no call in progress, also right after
\* the engine was constructed, the memory index holds fewer than mem_limit
\* entries.
C35_MemoryBelowLimit ==
    Quiescent => Cardinality(DOMAIN store) < mem_limit

\* C36: a path that the flush of another thread has just pushed, and that is
\* in the stack when a compaction comes to its final clear-and-push (the
\* compaction's drain emptied the stack, so the push came while it ran), is
\* still in the stack, its file on disk, after that step.
C36_ConcurrentFlushSurvivesCompaction ==
    [][\A t, u \in Threads :
          ( /\ t # u
            /\ th[t].pc = "co_install" /\ th'[t].pc = "co_ret"
            /\ th[u].pc = "fl_check"
            /\ th[u].name \in Range(segments) ) =>
              /\ th[u].name \in Range(segments')
              /\ th[u].name \in DOMAIN files']_vars

\* C37: two threads that are both in flush_memtable with their path chosen
\* and not yet pushed have chosen different paths, and no path is in the
\* segment stack twice.
C37_ConcurrentFlushesDistinctPaths ==
    /\ \A t, u \in Threads :
           ( /\ t # u
             /\ th[t].pc \in {"fl_write", "fl_slock", "fl_push"}
             /\ th[u].pc \in {"fl_write", "fl_slock", "fl_push"} ) =>
               th[t].name # th[u].name
    /\ \A i, j \in DOMAIN segments : i # j => segments[i] # segments[j]

\* Thread t is inside a get call.
GetInProgress(t) ==
    th[t].pc \in {"get_rlock", "get_find", "get_slock", "get_scan"}

\* C38: no step of a get call changes the memory index, the segment stack, a
\* segment file or the log; and a get that returns KEY_NOT_FOUND returns with
\* the caller's value as it was before the call.
C38_GetIsReadOnly ==
    [][\A t \in Threads :
          (GetInProgress(t) /\ th'[t] # th[t]) =>
              /\ store' = store /\ segments' = segments
              /\ files' = files /\ wal' = wal
              /\ (th'[t].pc = "get_ret" /\ th'[t].status = "KEY_NOT_FOUND") =>
                     th'[t].out = Untouched]_vars

\* C38's case: a get has scanned a stack of segments without finding its key.
C38_Witness ==
    \E t \in Threads :
        /\ th[t].pc = "get_ret" /\ th[t].status = "KEY_NOT_FOUND"
        /\ th[t].out = Untouched
        /\ segments # <<>>

\* C39: the engine constructed at a restart answers get for every key as the
\* engine it replaces answered just before it stopped.
C39_RestartPreservesView ==
    [][(/\ Quiescent
        /\ Len(hist') = Len(hist) + 1
        /\ hist'[Len(hist')][1] = "boot") =>
           \A k \in Keys : get(k)' = get(k)]_vars

\* The puts of key k that had returned when the get noted at position g of
\* hist was called: thread 1 has since reached the memory index with a later
\* call, all before g.
ReturnedBefore(k, g) ==
    {i \in OpsOn(k) : i < g /\ \E j \in Events("put") : i < j /\ j < g}

\* C40: a get racing with the other thread's flush that returns OK returns a
\* value that is not older than the last put of its key that had returned
\* when the get was called: the value of that put or of a later one.
C40_GetNeverReturnsStaleValue ==
    \A t \in Threads :
        (th[t].pc = "get_ret" /\ th[t].status = "OK" /\ Events("get") # {}) =>
            LET g == Max(Events("get"))
                R == ReturnedBefore(th[t].key, g)
            IN  R # {} =>
                    \E i \in OpsOn(th[t].key) :
                        i >= Max(R) /\ hist[i][3] = th[t].out

=============================================================================
